---- MODULE Spec2Model ----
(***************************************************************************)
(* Model of the WebSocket relay / handwriting-recognition servers of this  *)
(* repository.  The repository holds six server programs; `variant` picks  *)
(* the one that runs:                                                      *)
(*   "relay"    part_003 lines 1-68    drawing relay                       *)
(*   "ocr"      part_003 lines 70-266  OCR.space recognizer                *)
(*   "basic"    part_002               first Gemini recognizer             *)
(*   "server"   server.js              Gemini recognizer with checks       *)
(*   "official" part_000               Gemini recognizer, NO_TEXT token    *)
(*   "fixed"    part_001               as "official", other strings        *)
(* JavaScript strings are modelled as sequences of tokens (a token is a    *)
(* TLA+ string); " " is the whitespace token and "Recognition Failed: " is *)
(* the prefix of the failure strings.  An image string is a list of        *)
(* data-URI prefixes followed by `len` base64 characters.                  *)
(***************************************************************************)
EXTENDS Integers, Sequences, FiniteSets, TLC

VARIABLES variant, apiKey, readyState, wssClients, clients, sent, reqs, nmsgs, last,
          log

vars == <<variant, apiKey, readyState, wssClients, clients, sent, reqs, nmsgs, last, log>>

(* ------------------------------ bounds --------------------------------- *)

\* number of client connections that may ever open
MaxConns == 3
\* number of inbound messages the server handles in one run
MaxMsgs == 2
\* number of connections that may leave the OPEN state in one run
MaxCloses == 1

Conns == 1..MaxConns

Variants == {"relay", "ocr", "basic", "server", "official", "fixed"}
GeminiVariants == {"basic", "server", "official", "fixed"}
RecognizerVariants == GeminiVariants \cup {"ocr"}

(* --------------------------- JavaScript strings ------------------------ *)

\* the value `undefined` of an optional text field
UNDEF == <<"<undefined>">>

WS == " "

RECURSIVE TrimStart(_)
TrimStart(s) == IF s # <<>> /\ Head(s) = WS THEN TrimStart(Tail(s)) ELSE s

RECURSIVE TrimEnd(_)
TrimEnd(s) ==
    IF s # <<>> /\ s[Len(s)] = WS THEN TrimEnd(SubSeq(s, 1, Len(s) - 1)) ELSE s

\* String.prototype.trim
Trim(s) == TrimEnd(TrimStart(s))

\* String.prototype.includes
Includes(hay, needle) ==
    \E i \in 1..(Len(hay) - Len(needle) + 1) :
        SubSeq(hay, i, i + Len(needle) - 1) = needle

\* truthiness of an optional string: undefined and "" are falsy
Truthy(s) == s # UNDEF /\ s # <<>>

(* ------------------------------- images -------------------------------- *)

\* the image types a data-URI prefix data:image/<type>;base64, may name
ImageTypes == {"png", "jpeg", "svg+xml"}

TypeLen(t) == CASE t = "png" -> 3 [] t = "jpeg" -> 4 [] t = "svg+xml" -> 7

\* length of "data:image/" \o t \o ";base64,"
PrefixLen(t) == 11 + TypeLen(t) + 8

\* does <type> match the regular expression \w+
IsWord(t) == t \in {"png", "jpeg"}

RECURSIVE PrefixesLen(_)
PrefixesLen(p) == IF p = <<>> THEN 0 ELSE PrefixLen(Head(p)) + PrefixesLen(Tail(p))

\* base64ImageData.length
ImageLength(img) == PrefixesLen(img.pfx) + img.len

\* base64ImageData.replace(/^data:image\/png;base64,/, '')
StripPng(img) ==
    IF img.pfx # <<>> /\ Head(img.pfx) = "png"
    THEN [img EXCEPT !.pfx = Tail(img.pfx)] ELSE img

\* base64ImageData.replace(/^data:image\/\w+;base64,/, '')
StripWord(img) ==
    IF img.pfx # <<>> /\ IsWord(Head(img.pfx))
    THEN [img EXCEPT !.pfx = Tail(img.pfx)] ELSE img

\* `data:image/png;base64,${base64Clean}`
WithPngPrefix(img) == [img EXCEPT !.pfx = <<"png">> \o img.pfx]

\* is the value of data.image truthy
ImageTruthy(img) ==
    CASE img.kind = "undefined" -> FALSE
      [] img.kind = "number"    -> TRUE
      [] img.kind = "string"    -> ImageLength(img) > 0

NoImage == [kind |-> "undefined", pfx |-> <<>>, len |-> 0]
NumImage == [kind |-> "number", pfx |-> <<>>, len |-> 0]
StrImage(p, n) == [kind |-> "string", pfx |-> p, len |-> n]

(* ------------------------- provider responses -------------------------- *)

\* response.ok
Ok(status) == status >= 200 /\ status <= 299

\* the errors the runtime throws
FetchFailed == [name |-> "TypeError", message |-> <<"fetch", " failed">>]
Aborted == [name |-> "AbortError", message |-> <<"This operation was aborted">>]
JsonSyntaxError == [name |-> "SyntaxError", message |-> <<"Unexpected token < in JSON">>]
NullAccess == [name |-> "TypeError", message |-> <<"Cannot read properties of null">>]
UndefAccess == [name |-> "TypeError", message |-> <<"Cannot read properties of undefined">>]
NotAFunction == [name |-> "TypeError", message |-> <<"is not a function">>]

\* a JSON body; every field the six programs read, absent fields are UNDEF
\*   kind      "null" | "object"
\*   error     "absent" | "nomessage" | "message"     result.error
\*   errmsg    result.error.message
\*   finish    result.candidates[0].finishReason
\*   text      result.candidates[0].content.parts[0].text
\*   isErr     result.IsErroredOnProcessing
\*   emKind    "absent" | "array" | "string"           result.ErrorMessage
\*   em        the items of result.ErrorMessage
\*   parsed    "absent" | "empty" | "one"              result.ParsedResults
\*   parsedText result.ParsedResults[0].ParsedText
EmptyBody ==
    [kind |-> "object", error |-> "absent", errmsg |-> UNDEF, finish |-> "STOP",
     text |-> UNDEF, isErr |-> FALSE, emKind |-> "absent", em |-> <<>>,
     parsed |-> "absent", parsedText |-> UNDEF]

NullBody == [EmptyBody EXCEPT !.kind = "null"]
TextBody(t) == [EmptyBody EXCEPT !.text = t]
SafetyBody(t) == [EmptyBody EXCEPT !.text = t, !.finish = "SAFETY"]
ErrorBody(m) == [EmptyBody EXCEPT !.error = "message", !.errmsg = m]
ErrorNoMessageBody == [EmptyBody EXCEPT !.error = "nomessage"]
ParsedBody(t) == [EmptyBody EXCEPT !.parsed = "one", !.parsedText = t]
NoParsedBody == [EmptyBody EXCEPT !.parsed = "empty"]
ProcErrBody(k, m) == [EmptyBody EXCEPT !.isErr = TRUE, !.emKind = k, !.em = m]

(* ----------------------------- the recognizers ------------------------- *)

\* an outcome of a piece of recognizer code:
\*   "return"  the function returns `result`
\*   "throw"   an exception `error` is raised
\*   "fetch"   a provider call with `call` is issued and awaited
Return(s) == [kind |-> "return", result |-> s, error |-> FetchFailed,
              call |-> [engine |-> 0, image |-> NoImage, key |-> FALSE]]
Throw(e) == [kind |-> "throw", result |-> <<>>, error |-> e,
             call |-> [engine |-> 0, image |-> NoImage, key |-> FALSE]]
Fetch(engine, img, key) ==
    [kind |-> "fetch", result |-> <<>>, error |-> FetchFailed,
     call |-> [engine |-> engine, image |-> img, key |-> key]]

GeminiMinLength == 5000
OcrMinLength == 1000

\* the least length of image data the recognizer submits (0: no guard)
MinLength(v) ==
    CASE v \in {"server", "official", "fixed"} -> GeminiMinLength
      [] v = "ocr" -> OcrMinLength
      [] OTHER -> 0

\* the model name interpolated into the "model not available" strings
ModelName(v) == IF v = "official" THEN "gemini-2.5-flash" ELSE "gemini-1.5-flash-latest"

KeyMissing(v) ==
    IF v = "ocr" THEN <<"Recognition Failed: ", "OCR API Key Missing or not loaded.">>
    ELSE <<"Recognition Failed: ", "API Key Missing.">>

TooBlank(v) ==
    IF v = "ocr" THEN <<"Recognition Failed: ", "Please write clearly before recognizing.">>
    ELSE <<"Recognition Failed: ", "Please write clearly (ensure dark, thick lines) before recognizing.">>

RateLimited(v) ==
    IF v = "server" THEN <<"Recognition Failed: ", "Rate Limit Exceeded (Too many requests).">>
    ELSE <<"Recognition Failed: ", "Rate limit exceeded. Try again in a moment.">>

ServerFault == <<"Recognition Failed: ", "Google API server error. Try again later.">>

NoLegibleText == <<"Recognition Failed: ", "No legible text detected. Please write more clearly.">>

SafetyFiltered == <<"Recognition Failed: ", "Content filtered by safety settings.">>

HttpError(v, status, statusText) ==
    CASE v = "server" ->
            <<"Recognition Failed: ", "HTTP Error ", ToString(status), ". See server logs for details.">>
      [] v = "official" -> <<"Recognition Failed: ", "HTTP Error ", ToString(status)>>
      [] v = "fixed" ->
            <<"Recognition Failed: ", "HTTP Error ", ToString(status), ". Check server logs.">>
      [] v = "ocr" ->
            <<"Recognition Failed: ", "HTTP ", ToString(status), " - ">> \o statusText

\* recognizeSanskritText up to its first await, were the size check made before
\* the credential check
RecognizeStartSizeFirst(v, key, img) ==
    CASE v = "basic" ->
            IF img.kind = "string" THEN Fetch(0, StripPng(img), key)
            ELSE Throw(IF img.kind = "undefined" THEN UndefAccess ELSE NotAFunction)
      [] v \in {"server", "official", "fixed"} ->
            IF img.kind = "undefined" THEN Throw(UndefAccess)
            ELSE IF img.kind = "number" THEN Throw(NotAFunction)
            ELSE IF ImageLength(img) < GeminiMinLength THEN Return(TooBlank(v))
            ELSE IF ~key THEN Return(KeyMissing(v))
            ELSE Fetch(0, StripPng(img), key)
      [] v = "ocr" ->
            IF img.kind = "undefined" THEN Throw(UndefAccess)
            ELSE IF img.kind = "number" THEN Throw(NotAFunction)
            ELSE IF ImageLength(StripWord(img)) < OcrMinLength THEN Return(TooBlank(v))
            ELSE IF ~key THEN Return(KeyMissing(v))
            ELSE Fetch(2, WithPngPrefix(StripWord(img)), key)

\* recognizeSanskritText up to its first await, were the size check missing
RecognizeStartNoGuard(v, key, img) ==
    CASE v = "basic" ->
            IF img.kind = "string" THEN Fetch(0, StripPng(img), key)
            ELSE Throw(IF img.kind = "undefined" THEN UndefAccess ELSE NotAFunction)
      [] v \in {"server", "official", "fixed"} ->
            IF ~key THEN Return(KeyMissing(v))
            ELSE IF img.kind = "undefined" THEN Throw(UndefAccess)
            ELSE IF img.kind = "number" THEN Throw(NotAFunction)
            ELSE Fetch(0, StripPng(img), key)
      [] v = "ocr" ->
            IF ~key THEN Return(KeyMissing(v))
            ELSE IF img.kind = "undefined" THEN Throw(UndefAccess)
            ELSE IF img.kind = "number" THEN Throw(NotAFunction)
            ELSE Fetch(2, WithPngPrefix(StripWord(img)), key)

\* recognizeSanskritText up to its first await
RecognizeStart(v, key, img) ==
    CASE v = "basic" ->
            IF img.kind = "string" THEN Fetch(0, StripPng(img), key)
            ELSE Throw(IF img.kind = "undefined" THEN UndefAccess ELSE NotAFunction)
      [] v \in {"server", "official", "fixed"} ->
            IF ~key THEN Return(KeyMissing(v))
            ELSE IF img.kind = "undefined" THEN Throw(UndefAccess)
            ELSE IF img.kind = "number" THEN Throw(NotAFunction)
            ELSE IF ImageLength(img) < GeminiMinLength THEN Return(TooBlank(v))
            ELSE Fetch(0, StripPng(img), key)
      [] v = "ocr" ->
            IF ~key THEN Return(KeyMissing(v))
            ELSE IF img.kind = "undefined" THEN Throw(UndefAccess)
            ELSE IF img.kind = "number" THEN Throw(NotAFunction)
            ELSE IF ImageLength(StripWord(img)) < OcrMinLength THEN Return(TooBlank(v))
            ELSE Fetch(2, WithPngPrefix(StripWord(img)), key)

\* the substrings the recognizers search provider messages for
ApiKeyNotValid == <<"API key", " not valid">>
ApiKeyWord == <<"API key">>
ModelWord == <<"model">>
ModelsSlash == <<"model", "s/">>
NotFoundWord == <<"not found">>
FetchWord == <<"fetch">>
Engine2Word == <<"Engine2">>
EngineWord == <<"engine">>
NoTextToken == <<"NO_TEXT">>
RecognitionFailedToken == <<"Recognition Failed">>

\* the catch block, were it to report how many clients are connected
CatchStringCounting(v, err) ==
    <<"Recognition Failed: ", "Server Error. Clients: ", ToString(Cardinality(wssClients))>>

\* the catch block of recognizeSanskritText
CatchString(v, err) ==
    CASE v = "basic" -> <<"Recognition Failed: ", "Server Error.">>
      [] v = "server" ->
            <<"Recognition Failed: ", "Server Network Error or JSON Parse Failure.">>
      [] v = "official" ->
            IF err.name = "TypeError" /\ Includes(err.message, FetchWord)
            THEN <<"Recognition Failed: ", "Network error. Check internet connection.">>
            ELSE IF err.name = "SyntaxError"
            THEN <<"Recognition Failed: ", "Invalid JSON response from API.">>
            ELSE <<"Recognition Failed: ">> \o err.message
      [] v = "fixed" ->
            IF err.name = "TypeError" /\ Includes(err.message, FetchWord)
            THEN <<"Recognition Failed: ", "Network error. Check internet connection.">>
            ELSE <<"Recognition Failed: ">> \o err.message
      [] v = "ocr" -> <<"Recognition Failed: ">> \o err.message

\* server.js: the code between `await response.json()` and the catch block
ServerNormalize(status, body) ==
    IF body.kind = "null" THEN Throw(NullAccess)
    ELSE IF ~Ok(status) THEN
        IF status = 400 /\ body.error = "nomessage" THEN Throw(UndefAccess)
        ELSE IF status = 400 /\ body.error = "message"
                /\ Includes(body.errmsg, ApiKeyNotValid)
        THEN Return(<<"Recognition Failed: ", "Invalid GEMINI_API_KEY.">>)
        ELSE IF status = 429 THEN Return(RateLimited("server"))
        ELSE Return(HttpError("server", status, <<>>))
    ELSE IF Truthy(body.text) THEN Return(body.text)
    ELSE Return(<<"Recognition Failed: ", "Model failed to process input or response structure invalid.">>)

\* part_002: the code between `await response.json()` and the catch block
BasicNormalize(status, body) ==
    IF body.kind = "null" THEN Throw(NullAccess)
    ELSE IF Truthy(body.text) THEN Return(body.text)
    ELSE Return(<<"Recognition Failed: ", "API Response Empty">>)

\* result.error?.message?.includes(needle)
ErrIncludes(body, needle) == body.error = "message" /\ Includes(body.errmsg, needle)

\* part_000 and part_001, were the text compared with the token before trimming
OfficialNormalizeNoTrim(v, status, body) ==
    IF ~Ok(status) THEN
        IF status = 429 THEN Return(RateLimited(v))
        ELSE Return(HttpError(v, status, <<>>))
    ELSE IF body.kind = "null" THEN Throw(NullAccess)
    ELSE IF body.finish = "SAFETY" THEN Return(SafetyFiltered)
    ELSE IF Truthy(body.text) THEN
        IF body.text = NoTextToken THEN Return(NoLegibleText)
        ELSE Return(Trim(body.text))
    ELSE Return(<<"Recognition Failed: ", "Empty response from model.">>)

\* part_000 and part_001: the code between `await response.json()` and the catch block
OfficialNormalize(v, status, body) ==
    IF ~Ok(status) THEN
        IF status = 400 THEN
            IF body.kind = "null" THEN Throw(NullAccess)
            ELSE IF ErrIncludes(body, ApiKeyWord)
            THEN Return(<<"Recognition Failed: ", "Invalid API key. Check your GEMINI_API_KEY.">>)
            ELSE IF v = "official"
                    /\ (ErrIncludes(body, ModelWord) \/ ErrIncludes(body, NotFoundWord))
            THEN Return(<<"Recognition Failed: ", "Model '", ModelName(v), "' not available. Check API access.">>)
            ELSE IF v = "fixed" /\ ErrIncludes(body, ModelsSlash)
            THEN Return(<<"Recognition Failed: ", "Model '", ModelName(v), "' not found. Update MODEL_NAME in server.js">>)
            ELSE Return(<<"Recognition Failed: ", "Bad Request - ">> \o
                        (IF body.error = "message" /\ Truthy(body.errmsg)
                         THEN body.errmsg ELSE <<"Unknown error">>))
        ELSE IF status = 403
        THEN Return(<<"Recognition Failed: ", "API key lacks permission or billing not enabled.">>)
        ELSE IF status = 429 THEN Return(RateLimited(v))
        ELSE IF status = 500 \/ status = 503 THEN Return(ServerFault)
        ELSE Return(HttpError(v, status, <<>>))
    ELSE IF body.kind = "null" THEN Throw(NullAccess)
    ELSE IF body.finish = "SAFETY" THEN Return(SafetyFiltered)
    ELSE IF Truthy(body.text) THEN
        IF Trim(body.text) = NoTextToken THEN Return(NoLegibleText)
        ELSE Return(Trim(body.text))
    ELSE IF v = "official" THEN Return(<<"Recognition Failed: ", "Empty response from model.">>)
    ELSE Return(<<"Recognition Failed: ", "Empty response from model. Check server logs.">>)

\* Array.prototype.join(', ')
RECURSIVE Join(_)
Join(items) ==
    IF items = <<>> THEN <<>>
    ELSE IF Len(items) = 1 THEN Head(items)
    ELSE Head(items) \o <<", ">> \o Join(Tail(items))

\* result.ErrorMessage ? result.ErrorMessage.join(', ') : 'Unknown error'
OcrErrorMsg(body) == IF body.emKind = "array" THEN Join(body.em) ELSE <<"Unknown error">>

\* part_003, engine 2, were every processing error retried with engine 1
OcrNormalizeAlwaysRetry(key, clean, status, statusText, body) ==
    IF ~Ok(status) THEN Return(HttpError("ocr", status, statusText))
    ELSE IF body.kind = "null" THEN Throw(NullAccess)
    ELSE IF body.isErr THEN
        IF body.emKind = "string" THEN Throw(NotAFunction)
        ELSE Fetch(1, WithPngPrefix(clean), key)
    ELSE IF body.parsed = "one" /\ body.parsedText = UNDEF THEN Throw(UndefAccess)
    ELSE IF body.parsed = "one" /\ Trim(body.parsedText) # <<>>
    THEN Return(Trim(body.parsedText))
    ELSE Return(<<"Recognition Failed: ", "No text detected. Try writing larger and clearer.">>)

\* part_003, engine 2: the code between `await response.json()` and the catch block;
\* `clean` is base64Clean
OcrNormalize(key, clean, status, statusText, body) ==
    IF ~Ok(status) THEN Return(HttpError("ocr", status, statusText))
    ELSE IF body.kind = "null" THEN Throw(NullAccess)
    ELSE IF body.isErr THEN
        IF body.emKind = "string" THEN Throw(NotAFunction)
        ELSE IF Includes(OcrErrorMsg(body), Engine2Word)
                \/ Includes(OcrErrorMsg(body), EngineWord)
        THEN Fetch(1, WithPngPrefix(clean), key)
        ELSE Return(<<"Recognition Failed: ">> \o OcrErrorMsg(body))
    ELSE IF body.parsed = "one" /\ body.parsedText = UNDEF THEN Throw(UndefAccess)
    ELSE IF body.parsed = "one" /\ Trim(body.parsedText) # <<>>
    THEN Return(Trim(body.parsedText))
    ELSE Return(<<"Recognition Failed: ", "No text detected. Try writing larger and clearer.">>)

\* part_003, recognizeSanskritTextWithEngine1 after `await response.json()`
Engine1Normalize(body) ==
    IF body.kind = "null" THEN Throw(NullAccess)
    ELSE IF body.parsed = "one" /\ body.parsedText = UNDEF THEN Throw(UndefAccess)
    ELSE IF body.parsed = "one" /\ Trim(body.parsedText) # <<>>
    THEN Return(Trim(body.parsedText))
    ELSE Return(<<"Recognition Failed: ", "No text detected with either engine.">>)

\* the catch block of recognizeSanskritTextWithEngine1
Engine1Catch == <<"Recognition Failed: ", "Both engines failed.">>

\* the recognizer from the settling of `await response.json()` with `body` to
\* its return, for the call of engine `engine` (0: Gemini); an exception raised
\* inside the try block is turned into a string by the catch block
AfterJson(v, key, img, engine, status, statusText, body) ==
    LET raw == CASE v = "basic" -> BasicNormalize(status, body)
                 [] v = "server" -> ServerNormalize(status, body)
                 [] v \in {"official", "fixed"} -> OfficialNormalize(v, status, body)
                 [] v = "ocr" /\ engine = 2 ->
                        OcrNormalize(key, StripWord(img), status, statusText, body)
                 [] v = "ocr" /\ engine = 1 -> Engine1Normalize(body)
    IN  IF raw.kind = "throw"
        THEN Return(IF engine = 1 THEN Engine1Catch ELSE CatchString(v, raw.error))
        ELSE raw

\* the recognizer when `await fetch(...)` or `await response.json()` rejects
AfterReject(v, engine, err) ==
    Return(IF engine = 1 THEN Engine1Catch ELSE CatchString(v, err))

(* --------------------------- inbound messages -------------------------- *)

\* a frame a client sends:
\*   json     "invalid" (JSON.parse throws) | "null" (parses to null) | "object"
\*   type     data.type ("none": no such field)
\*   image    data.image
\*   payload  the rest of the message, which the server does not read
Msg(j, t, img, p) == [json |-> j, type |-> t, image |-> img, payload |-> p]

BadJson == Msg("invalid", "none", NoImage, "garbage")
JsonNull == Msg("null", "none", NoImage, "null")
NoType == Msg("object", "none", NoImage, "{}")
Draw(p) == Msg("object", "draw", NoImage, p)
Recognize(img) == Msg("object", "recognize_image", img, "")

(* --------------------------- outbound messages ------------------------- *)

\* a frame the server sends: JSON.stringify({type, <field>: text}), or, for
\* the relay, the inbound frame `data` itself
Out(t, f, s) == [type |-> t, field |-> f, text |-> s, data |-> NoType]
Raw(m) == [type |-> "raw", field |-> "raw", text |-> <<>>, data |-> m]

\* the type tag of a recognition result
ResultType(v) == IF v = "ocr" THEN "display_text" ELSE "recognized_text"

ResultMsg(v, s) == Out(ResultType(v), "text", s)
AckMsg == Out("display_text", "text", <<"Processing...">>)
ErrorReply(v, err) ==
    IF v = "ocr" THEN Out("display_text", "text", <<"Server Error: ">> \o err.message)
    ELSE Out("error", "message", <<"Server error processing request">>)

\* does the catch block of `incoming` reply to the sender
RepliesOnError(v) == v \in {"official", "fixed", "ocr"}

\* is an 'error' listener registered on each connection
HasErrorHandler(v) == v \in {"relay", "official", "fixed"}

(* ------------------------------ the server ----------------------------- *)

IsOpen(c) == c \in wssClients /\ readyState[c] = "OPEN"

\* the connections that have left the OPEN state
Left == {c \in Conns : readyState[c] \in {"CLOSING", "CLOSED"}}

\* the broadcast, were a frame put in front of the frames already sent
BroadcastAllNewestFirst(s, m) ==
    [c \in Conns |-> IF IsOpen(c) THEN <<m>> \o s[c] ELSE s[c]]

\* the broadcast, were the test of client.readyState missing
BroadcastAllAnyState(s, m) ==
    [c \in Conns |-> IF c \in wssClients THEN Append(s[c], m) ELSE s[c]]

\* the broadcast, were it to iterate the Set `clients` instead of wss.clients
BroadcastAllOwnSet(s, m) ==
    [c \in Conns |-> IF c \in clients /\ readyState[c] = "OPEN" THEN Append(s[c], m) ELSE s[c]]

\* wss.clients.forEach(client => { if (client.readyState === client.OPEN) client.send(m) })
\* (`s` is what has been sent so far)
BroadcastAll(s, m) ==
    [c \in Conns |-> IF IsOpen(c) THEN Append(s[c], m) ELSE s[c]]

\* the relay broadcast, were a frame put in front of the frames already sent
BroadcastExceptNewestFirst(s, ws, m) ==
    [c \in Conns |-> IF c # ws /\ IsOpen(c) THEN <<m>> \o s[c] ELSE s[c]]

\* the relay broadcast, were the test `client !== ws` missing
BroadcastExceptEcho(s, ws, m) ==
    [c \in Conns |-> IF IsOpen(c) THEN Append(s[c], m) ELSE s[c]]

\* wss.clients.forEach(client => { if (client !== ws && client.readyState === client.OPEN) ... })
BroadcastExcept(s, ws, m) ==
    [c \in Conns |-> IF c # ws /\ IsOpen(c) THEN Append(s[c], m) ELSE s[c]]

\* the reply, were it sent over every socket of wss.clients
SendToEveryClient(s, ws, m) ==
    [c \in Conns |-> IF c \in wssClients THEN Append(s[c], m) ELSE s[c]]

\* ws.send(m)
SendTo(s, ws, m) == [s EXCEPT ![ws] = Append(@, m)]

\* a recognition request: one call of recognizeSanskritText by `incoming`
\*   pc      "fetch" | "json": the await the call is suspended at
\*           "done": it returned `result`;  "threw": it raised an exception
\*   engine  the engine of the provider call in flight (0: Gemini)
\*   calls   the provider calls issued so far
\*   resps   what the awaits have settled with so far
\*   openAt  the connections that were open when the message arrived (history)
\*   rank    n when the request was the n-th to return a string (history)
NewReq(c, img) ==
    [sender |-> c, image |-> img, pc |-> "start", engine |-> 0, status |-> 0,
     statusText |-> <<>>, calls |-> <<>>, resps |-> <<>>, result |-> <<>>,
     openAt |-> {d \in Conns : IsOpen(d)}, rank |-> 0]

\* the request after a piece of recognizer code ended with outcome `o`
Advance(r, o) ==
    CASE o.kind = "return" ->
            [r EXCEPT !.pc = "done", !.result = o.result,
                      !.rank = 1 + Cardinality({j \in DOMAIN reqs : reqs[j].pc = "done"})]
      [] o.kind = "throw"  -> [r EXCEPT !.pc = "threw"]
      [] o.kind = "fetch"  -> [r EXCEPT !.pc = "fetch", !.engine = o.call.engine,
                                        !.calls = Append(@, o.call)]

\* what the server did last: the handler that ran (`op`), the connection and the
\* inbound message it ran for, the branch it took, and the request it
\* started or resumed (0: none)
Event(op, c, m, branch, req) ==
    [op |-> op, conn |-> c, msg |-> m, branch |-> branch, req |-> req]

\* the value of `last` after a connection event
Lifecycle == Event("lifecycle", 0, NoType, "", 0)

Init ==
    /\ variant \in Variants
    /\ apiKey \in BOOLEAN
    /\ readyState = [c \in Conns |-> "NONE"]
    /\ wssClients = {}
    /\ clients = {}
    /\ sent = [c \in Conns |-> <<>>]
    /\ reqs = <<>>
    /\ nmsgs = 0
    /\ last = Lifecycle
    /\ log = <<>>

\* wss.on('connection', ...)
\* (connections are numbered in the order they arrive)
Connect(c) ==
    /\ readyState[c] = "NONE"
    /\ \A d \in Conns : d < c => readyState[d] # "NONE"
    /\ readyState' = [readyState EXCEPT ![c] = "OPEN"]
    /\ wssClients' = wssClients \cup {c}
    /\ clients' = IF variant = "relay" THEN clients \cup {c} ELSE clients
    /\ last' = Lifecycle
    /\ UNCHANGED <<variant, apiKey, log, sent, reqs, nmsgs>>

\* the closing handshake starts: the socket leaves the OPEN state and stays
\* in wss.clients until its 'close' event
BeginClose(c) ==
    /\ readyState[c] = "OPEN"
    /\ Cardinality(Left) < MaxCloses
    /\ readyState' = [readyState EXCEPT ![c] = "CLOSING"]
    /\ last' = Lifecycle
    /\ UNCHANGED <<variant, apiKey, log, wssClients, clients, sent, reqs, nmsgs>>

\* ws.on('error', ...): the listener logs; the socket is then closing
Error(c) ==
    /\ HasErrorHandler(variant)
    /\ readyState[c] = "OPEN"
    /\ Cardinality(Left) < MaxCloses
    /\ readyState' = [readyState EXCEPT ![c] = "CLOSING"]
    /\ last' = Event("error", c, NoType, "", 0)
    /\ UNCHANGED <<variant, apiKey, log, wssClients, clients, sent, reqs, nmsgs>>

\* the close handler, were it to abandon the pending requests of the connection
CloseCancelling(c) ==
    /\ readyState[c] \in {"OPEN", "CLOSING"}
    /\ readyState[c] = "OPEN" => Cardinality(Left) < MaxCloses
    /\ readyState' = [readyState EXCEPT ![c] = "CLOSED"]
    /\ wssClients' = wssClients \ {c}
    /\ clients' = IF variant = "relay" THEN clients \ {c} ELSE clients
    /\ reqs' = [i \in DOMAIN reqs |->
                   IF reqs[i].sender = c /\ reqs[i].pc \in {"fetch", "json"}
                   THEN [reqs[i] EXCEPT !.pc = "cancelled"] ELSE reqs[i]]
    /\ last' = Lifecycle
    /\ UNCHANGED <<variant, apiKey, log, sent, nmsgs>>

\* ws.on('close', ...)
Close(c) ==
    /\ readyState[c] \in {"OPEN", "CLOSING"}
    /\ readyState[c] = "OPEN" => Cardinality(Left) < MaxCloses
    /\ readyState' = [readyState EXCEPT ![c] = "CLOSED"]
    /\ wssClients' = wssClients \ {c}
    /\ clients' = IF variant = "relay" THEN clients \ {c} ELSE clients
    /\ last' = Lifecycle
    /\ UNCHANGED <<variant, apiKey, log, sent, reqs, nmsgs>>

\* a drawing event the relay handled (history): the connection it came from,
\* the frame, and the connections client.send was called on
Relayed(c, m) ==
    [conn |-> c, msg |-> m, to |-> {d \in Conns \ {c} : IsOpen(d)}]

\* part_003 lines 42-53: `incoming` of the drawing relay
Relay(c, m) ==
    /\ variant = "relay"
    /\ readyState[c] = "OPEN"
    /\ nmsgs < MaxMsgs
    /\ nmsgs' = nmsgs + 1
    /\ sent' = BroadcastExcept(sent, c, Raw(m))
    /\ last' = Event("message", c, m, "relayed", 0)
    /\ log' = Append(log, Relayed(c, m))
    /\ UNCHANGED <<variant, apiKey, readyState, wssClients, clients, reqs>>

\* the dispatch, were the test of data.type missing
AcceptsAnyType(v, m) ==
    /\ m.json = "object"
    /\ v = "ocr" => ImageTruthy(m.image)

\* the condition under which `incoming` calls the recognizer
Accepts(v, m) ==
    /\ m.json = "object"
    /\ m.type = "recognize_image"
    /\ v = "ocr" => ImageTruthy(m.image)

\* `incoming` of a recognizer when JSON.parse or the read of data.type throws:
\* the catch block
IncomingMalformed(c, m) ==
    /\ variant \in RecognizerVariants
    /\ readyState[c] = "OPEN"
    /\ nmsgs < MaxMsgs
    /\ m.json \in {"invalid", "null"}
    /\ nmsgs' = nmsgs + 1
    /\ sent' = IF RepliesOnError(variant)
               THEN SendTo(sent, c, ErrorReply(variant,
                        IF m.json = "invalid" THEN JsonSyntaxError ELSE NullAccess))
               ELSE sent
    /\ last' = Event("message", c, m, "caught", 0)
    /\ UNCHANGED <<variant, apiKey, log, readyState, wssClients, clients, reqs>>

\* `incoming` of a recognizer for a message it does not dispatch: the else branch
IncomingUnknown(c, m) ==
    /\ variant \in RecognizerVariants
    /\ readyState[c] = "OPEN"
    /\ nmsgs < MaxMsgs
    /\ m.json = "object"
    /\ ~Accepts(variant, m)
    /\ nmsgs' = nmsgs + 1
    /\ last' = Event("message", c, m, "ignored", 0)
    /\ UNCHANGED <<variant, apiKey, log, readyState, wssClients, clients, sent, reqs>>

\* `incoming`, were a recognition request refused while another one is pending
IncomingRecognizeExclusive(c, m) ==
    /\ variant \in RecognizerVariants
    /\ readyState[c] = "OPEN"
    /\ nmsgs < MaxMsgs
    /\ Accepts(variant, m)
    /\ \A i \in DOMAIN reqs : reqs[i].pc \notin {"fetch", "json"}
    /\ nmsgs' = nmsgs + 1
    /\ LET acked == IF variant = "ocr" THEN SendTo(sent, c, AckMsg) ELSE sent
           o == RecognizeStart(variant, apiKey, m.image)
           r == Advance(NewReq(c, m.image), o)
       IN  /\ reqs' = Append(reqs, r)
           /\ sent' = CASE o.kind = "return" ->
                              BroadcastAll(acked, ResultMsg(variant, o.result))
                        [] o.kind = "throw" ->
                              IF RepliesOnError(variant)
                              THEN SendTo(acked, c, ErrorReply(variant, o.error))
                              ELSE acked
                        [] o.kind = "fetch" -> acked
           /\ last' = Event("message", c, m,
                            CASE o.kind = "return" -> "completed"
                              [] o.kind = "throw" -> "threw"
                              [] o.kind = "fetch" -> "pending",
                            Len(reqs) + 1)
    /\ UNCHANGED <<variant, apiKey, log, readyState, wssClients, clients>>

\* `incoming` of a recognizer for a recognize_image message, up to the first
\* await that suspends on the network: the acknowledgement (OCR), the call of
\* recognizeSanskritText and, when that returns or throws without a provider
\* call, the broadcast or the catch block
IncomingRecognize(c, m) ==
    /\ variant \in RecognizerVariants
    /\ readyState[c] = "OPEN"
    /\ nmsgs < MaxMsgs
    /\ Accepts(variant, m)
    /\ nmsgs' = nmsgs + 1
    /\ LET acked == IF variant = "ocr" THEN SendTo(sent, c, AckMsg) ELSE sent
           o == RecognizeStart(variant, apiKey, m.image)
           r == Advance(NewReq(c, m.image), o)
       IN  /\ reqs' = Append(reqs, r)
           /\ sent' = CASE o.kind = "return" ->
                              BroadcastAll(acked, ResultMsg(variant, o.result))
                        [] o.kind = "throw" ->
                              IF RepliesOnError(variant)
                              THEN SendTo(acked, c, ErrorReply(variant, o.error))
                              ELSE acked
                        [] o.kind = "fetch" -> acked
           /\ last' = Event("message", c, m,
                            CASE o.kind = "return" -> "completed"
                              [] o.kind = "throw" -> "threw"
                              [] o.kind = "fetch" -> "pending",
                            Len(reqs) + 1)
    /\ UNCHANGED <<variant, apiKey, log, readyState, wssClients, clients>>

Settle(stage, kind, err, status, statusText, body) ==
    [stage |-> stage, kind |-> kind, err |-> err, status |-> status,
     statusText |-> statusText, body |-> body]

\* the resumption, were the result sent to the connections that were open when
\* the request arrived
ResumeToArrivalSet(i, settle, o) ==
    LET r == Advance([reqs[i] EXCEPT !.resps = Append(@, settle)], o)
    IN  /\ reqs' = [reqs EXCEPT ![i] = r]
        /\ sent' = IF o.kind = "return"
                   THEN [c \in Conns |->
                            IF c \in reqs[i].openAt
                            THEN Append(sent[c], ResultMsg(variant, o.result))
                            ELSE sent[c]]
                   ELSE sent
        /\ last' = Event("settle", reqs[i].sender, NoType,
                         IF o.kind = "return" THEN "completed" ELSE "pending", i)

\* the resumption, were the recognized text kept in a variable that all the
\* requests share: the broadcast carries the text of a request that ended before
ResumeSharedText(i, settle, o) ==
    LET r == Advance([reqs[i] EXCEPT !.resps = Append(@, settle)], o)
        ended == {j \in DOMAIN reqs \ {i} : reqs[j].pc = "done"}
        text == IF ended = {} THEN o.result ELSE reqs[CHOOSE j \in ended : TRUE].result
    IN  /\ reqs' = [reqs EXCEPT ![i] = r]
        /\ sent' = IF o.kind = "return"
                   THEN BroadcastAll(sent, ResultMsg(variant, text))
                   ELSE sent
        /\ last' = Event("settle", reqs[i].sender, NoType,
                         IF o.kind = "return" THEN "completed" ELSE "pending", i)

\* the request `i` after an await settled and the recognizer ran on with outcome `o`;
\* when the recognizer returned, `incoming` resumes and broadcasts the result
Resume(i, settle, o) ==
    LET r == Advance([reqs[i] EXCEPT !.resps = Append(@, settle)], o)
    IN  /\ reqs' = [reqs EXCEPT ![i] = r]
        /\ sent' = IF o.kind = "return"
                   THEN BroadcastAll(sent, ResultMsg(variant, o.result))
                   ELSE sent
        /\ last' = Event("settle", reqs[i].sender, NoType,
                         IF o.kind = "return" THEN "completed" ELSE "pending", i)

\* `await fetch(...)` rejects: the catch block, the return and the broadcast
FetchReject(i, err) ==
    /\ i \in DOMAIN reqs
    /\ reqs[i].pc = "fetch"
    /\ Resume(i, Settle("fetch", "reject", err, 0, <<>>, EmptyBody),
              AfterReject(variant, reqs[i].engine, err))
    /\ UNCHANGED <<variant, apiKey, log, readyState, wssClients, clients, nmsgs>>

\* `await fetch(...)` resolves with a response of `status`
FetchRespond(i, status, statusText) ==
    /\ i \in DOMAIN reqs
    /\ reqs[i].pc = "fetch"
    /\ reqs' = [reqs EXCEPT ![i] =
                   [@ EXCEPT !.pc = "json", !.status = status, !.statusText = statusText,
                             !.resps = Append(@, Settle("fetch", "response", FetchFailed,
                                                        status, statusText, EmptyBody))]]
    /\ last' = Event("settle", reqs[i].sender, NoType, "pending", i)
    /\ UNCHANGED <<variant, apiKey, log, readyState, wssClients, clients, sent, nmsgs>>

\* `await response.json()` rejects: the catch block, the return and the broadcast
JsonReject(i) ==
    /\ i \in DOMAIN reqs
    /\ reqs[i].pc = "json"
    /\ Resume(i, Settle("json", "reject", JsonSyntaxError, 0, <<>>, EmptyBody),
              AfterReject(variant, reqs[i].engine, JsonSyntaxError))
    /\ UNCHANGED <<variant, apiKey, log, readyState, wssClients, clients, nmsgs>>

\* `await response.json()` resolves with `body`: the rest of the recognizer and,
\* unless it issues the engine-1 call, the broadcast
JsonResolve(i, body) ==
    /\ i \in DOMAIN reqs
    /\ reqs[i].pc = "json"
    /\ Resume(i, Settle("json", "body", FetchFailed, 0, <<>>, body),
              AfterJson(variant, apiKey, reqs[i].image, reqs[i].engine,
                        reqs[i].status, reqs[i].statusText, body))
    /\ UNCHANGED <<variant, apiKey, log, readyState, wssClients, clients, nmsgs>>

(* ------------------------------- inputs -------------------------------- *)

Om == <<"om">>

\* reason phrase of a status line (an HTTP/2 response has none)
ReasonPhrase(status) ==
    CASE status = 200 -> <<"OK">>
      [] status = 400 -> <<"Bad Request">>
      [] status = 403 -> <<"Forbidden">>
      [] status = 404 -> <<"Not Found">>
      [] status = 429 -> <<"Too Many Requests">>
      [] status = 500 -> <<"Internal Server Error">>
      [] status = 502 -> <<"Bad Gateway">>
      [] status = 503 -> <<"Service Unavailable">>

\* image data around the length thresholds, with and without data-URI prefixes
Images ==
    {NoImage, NumImage,
     StrImage(<<>>, 0), StrImage(<<>>, 200), StrImage(<<"png">>, 200),
     StrImage(<<>>, 999), StrImage(<<>>, 1000), StrImage(<<"png">>, 990),
     StrImage(<<>>, 4999), StrImage(<<>>, 5000), StrImage(<<"png">>, 4990),
     StrImage(<<"png">>, 6000), StrImage(<<"jpeg">>, 6000),
     StrImage(<<"svg+xml">>, 6000), StrImage(<<"png", "png">>, 6000)}

Messages ==
    {BadJson, JsonNull, NoType, Draw("d1")} \cup {Recognize(img) : img \in Images}

Statuses == {200, 400, 403, 404, 429, 500, 502, 503}

RejectErrors == {FetchFailed, Aborted}

Texts ==
    {UNDEF, <<>>, Om, <<WS, "om", WS>>, <<WS>>, NoTextToken, <<WS, "NO_TEXT", WS>>,
     <<"NO_TEXT", ".">>, RecognitionFailedToken}

ErrorMessages ==
    {<<"API key", " not valid", ". Please pass a valid API key.">>,
     <<"API key", " expired">>, <<"model", "s/", "x is ", "not found">>,
     <<"model", " is overloaded">>, <<"quota exceeded">>, <<>>}

GeminiBodies ==
    {NullBody, ErrorNoMessageBody, SafetyBody(Om), SafetyBody(NoTextToken)}
    \cup {TextBody(t) : t \in Texts}
    \cup {ErrorBody(m) : m \in ErrorMessages}
    \cup {[ErrorBody(<<"quota exceeded">>) EXCEPT !.text = t] : t \in {Om, NoTextToken}}

OcrBodies ==
    {NullBody, EmptyBody, NoParsedBody,
     ProcErrBody("absent", <<>>), ProcErrBody("array", <<>>),
     ProcErrBody("string", << <<"oops">> >>),
     ProcErrBody("array", << <<"Engine2", " is down">> >>),
     ProcErrBody("array", << <<"E101">>, <<"bad ", "engine">> >>),
     ProcErrBody("array", << <<"E101">>, <<"Timed out">> >>)}
    \cup {ParsedBody(t) : t \in {UNDEF, <<>>, Om, <<WS, "om", WS>>, <<WS>>}}

Bodies(v) == IF v = "ocr" THEN OcrBodies ELSE GeminiBodies

\* the inputs of the server specification
ServerMessages(v) ==
    IF v = "relay" THEN {Draw("d1"), Draw("d2")}
    ELSE {BadJson, Draw("d1"), Recognize(NoImage), Recognize(StrImage(<<>>, 200)),
          Recognize(StrImage(<<"png">>, 6000))}

ServerStatuses == {200}

ServerBodies(v) ==
    IF v = "ocr" THEN {ParsedBody(Om), ProcErrBody("array", << <<"Engine2", " is down">> >>)}
    ELSE {TextBody(Om), TextBody(NoTextToken)}

(* ---------------------------- specifications --------------------------- *)

Next ==
    \/ \E c \in Conns : Connect(c)
    \/ \E c \in Conns : BeginClose(c)
    \/ \E c \in Conns : Error(c)
    \/ \E c \in Conns : Close(c)
    \/ \E c \in Conns : \E m \in ServerMessages(variant) : Relay(c, m)
    \/ \E c \in Conns : \E m \in ServerMessages(variant) : IncomingMalformed(c, m)
    \/ \E c \in Conns : \E m \in ServerMessages(variant) : IncomingUnknown(c, m)
    \/ \E c \in Conns : \E m \in ServerMessages(variant) : IncomingRecognize(c, m)
    \/ \E i \in 1..MaxMsgs : FetchReject(i, FetchFailed)
    \/ \E i \in 1..MaxMsgs : \E st \in ServerStatuses : FetchRespond(i, st, ReasonPhrase(st))
    \/ \E i \in 1..MaxMsgs : \E b \in ServerBodies(variant) : JsonResolve(i, b)

\* the server: connections come and go, messages arrive, provider calls settle
Spec == Init /\ [][Next]_vars

\* the drawing relay alone
RelayNext ==
    \/ \E c \in Conns : Connect(c)
    \/ \E c \in Conns : BeginClose(c)
    \/ \E c \in Conns : Error(c)
    \/ \E c \in Conns : Close(c)
    \/ \E c \in Conns : \E m \in ServerMessages("relay") : Relay(c, m)

RelayInit == Init /\ variant = "relay"

RelaySpec == RelayInit /\ [][RelayNext]_vars

\* one recognizer before its first message: every connection has connected,
\* connection 1 is open, each other one is open or closing
RecInit ==
    /\ variant \in RecognizerVariants
    /\ apiKey \in BOOLEAN
    /\ readyState \in [Conns -> {"OPEN", "CLOSING"}]
    /\ readyState[1] = "OPEN"
    /\ wssClients = Conns
    /\ clients = {}
    /\ sent = [c \in Conns |-> <<>>]
    /\ reqs = <<>>
    /\ nmsgs = 0
    /\ last = Lifecycle
    /\ log = <<>>

RecNext ==
    \/ /\ nmsgs = 0
       /\ \E m \in Messages :
            \/ IncomingMalformed(1, m)
            \/ IncomingUnknown(1, m)
            \/ IncomingRecognize(1, m)
    \/ \E e \in RejectErrors : FetchReject(1, e)
    \/ \E st \in Statuses : \E txt \in {<<>>, ReasonPhrase(st)} : FetchRespond(1, st, txt)
    \/ JsonReject(1)
    \/ \E b \in Bodies(variant) : JsonResolve(1, b)

\* one message, over every input, response and configuration of a recognizer
RecSpec == RecInit /\ [][RecNext]_vars

\* every pending await of the one request settles in the end: the provider
\* responds or the transport fails
RecFairness ==
    /\ WF_vars(\/ \E e \in RejectErrors : FetchReject(1, e)
               \/ \E st \in Statuses : FetchRespond(1, st, ReasonPhrase(st)))
    /\ WF_vars(JsonReject(1) \/ \E b \in Bodies(variant) : JsonResolve(1, b))

\* one message, with a provider that always settles a call
RecLiveSpec == RecInit /\ [][RecNext]_vars /\ RecFairness

(* ------------------------------- claims -------------------------------- *)

Requests == {reqs[i] : i \in DOMAIN reqs}

\* the last frame sent to connection c
LastSent(c) == sent[c][Len(sent[c])]

\* C1: in the drawing relay, a drawing event received from connection A is sent,
\* unmodified, to every other connection that is open at the time of the send,
\* and to no one else: never back to A, never to a connection that is not open
C1_DrawingRelay ==
    [][(last'.op = "message" /\ last'.branch = "relayed") =>
          \A c \in Conns :
              sent'[c] = IF c # last'.conn /\ c \in wssClients /\ readyState[c] = "OPEN"
                         THEN Append(sent[c], Raw(last'.msg))
                         ELSE sent[c]]_vars

\* C1 witness: a drawing from A has just reached two other open connections
\* while A itself has received nothing
C1_Witness ==
    /\ variant = "relay"
    /\ last.op = "message"
    /\ \E b, c \in Conns \ {last.conn} :
          /\ b # c
          /\ sent[b] = <<Raw(last.msg)>>
          /\ sent[c] = <<Raw(last.msg)>>
    /\ sent[last.conn] = <<>>

\* C2: when a recognition request completes (the recognizer returned its string),
\* every connection open at that moment, the sender included, is sent one more
\* frame, which carries that string under the recognition-result type tag
C2_ResultBroadcast ==
    [][(last'.op \in {"message", "settle"} /\ last'.branch = "completed") =>
          \A c \in Conns :
              (c \in wssClients /\ readyState[c] = "OPEN") =>
                  /\ Len(sent'[c]) > Len(sent[c])
                  /\ sent'[c][Len(sent'[c])] =
                        [type |-> IF variant = "ocr" THEN "display_text" ELSE "recognized_text",
                         field |-> "text", text |-> reqs'[last'.req].result,
                         data |-> NoType]]_vars

\* C2 witness: a provider call has completed and its result is the last frame of
\* the sender and of another open connection
C2_Witness ==
    /\ last.op = "settle"
    /\ last.branch = "completed"
    /\ IsOpen(last.conn)
    /\ \E c \in Conns \ {last.conn} : IsOpen(c) /\ sent[c] # <<>>
          /\ LastSent(c).text = reqs[last.req].result
    /\ sent[last.conn] # <<>>
    /\ LastSent(last.conn).text = reqs[last.req].result
    /\ LastSent(last.conn).type = ResultType(variant)

\* C3: (one message per run) a message that parses to an object whose type field
\* is not "recognize_image" makes the server send nothing: no broadcast, no reply
C3_UnknownTypeSilent ==
    (last.op = "message" /\ last.msg.json = "object" /\ last.msg.type # "recognize_image")
        => \A c \in Conns : sent[c] = <<>>

\* C3 witness: a message of type "draw" was handled while another connection was open
C3_Witness ==
    /\ last.op = "message"
    /\ last.msg.type = "draw"
    /\ \E c \in Conns \ {last.conn} : IsOpen(c)
    /\ nmsgs = 1

\* is the image a string shorter, as received, than the variant's minimum length
ShortPayload(img) == img.kind = "string" /\ ImageLength(img) < MinLength(variant)

\* C4 as stated: every request whose image payload is shorter than the configured
\* minimum issues no provider call and returns the canvas-too-blank string
C4_Original ==
    \A r \in Requests :
        ShortPayload(r.image) =>
            r.calls = <<>> /\ r.pc = "done" /\ r.result = TooBlank(variant)

\* C4 amended: every request whose image payload, as received, is shorter than the
\* configured minimum issues no provider call; it returns the canvas-too-blank
\* string when a credential is configured and the key-missing string when not
C4_ShortPayload ==
    \A r \in Requests :
        ShortPayload(r.image) =>
            /\ r.calls = <<>>
            /\ r.pc = "done"
            /\ r.result = IF apiKey THEN TooBlank(variant) ELSE KeyMissing(variant)

\* C4 witness: with a credential, a 200-character payload was answered with the
\* canvas-too-blank string, without a provider call, and the string was broadcast
C4_Witness ==
    /\ apiKey
    /\ \E r \in Requests :
          /\ r.image = StrImage(<<>>, 200)
          /\ r.calls = <<>>
          /\ r.result = TooBlank(variant)
          /\ sent[r.sender] # <<>>
          /\ LastSent(r.sender).text = TooBlank(variant)

\* C5: the recognizer never raises an exception to `incoming`: every call of it
\* returns a string
C5_NeverThrows == \A r \in Requests : r.pc # "threw"

\* C6: with no API credential configured, every recognition request (that carries
\* an image string) returns the key-missing string and issues no provider call
C6_NoKeyNoCall ==
    ~apiKey => \A r \in Requests :
                  r.image.kind = "string" =>
                      r.calls = <<>> /\ r.pc = "done" /\ r.result = KeyMissing(variant)

\* the frame is a "server error" reply
IsErrorReply(m) ==
    /\ m.text # <<>>
    /\ Head(m.text) \in {"Server error processing request", "Server Error: "}

\* C7: (one message per run) a message that is not JSON, or parses to null, gets
\* exactly one frame sent, a server-error reply to its sender; no other connection
\* is sent anything and no connection is closed
C7_MalformedReply ==
    (last.op = "message" /\ last.msg.json \in {"invalid", "null"}) =>
        /\ Len(sent[last.conn]) = 1
        /\ IsErrorReply(sent[last.conn][1])
        /\ \A c \in Conns \ {last.conn} : sent[c] = <<>>
        /\ readyState[last.conn] = "OPEN"
        /\ wssClients = Conns

\* what the last await of the request settled with
LastSettle(r) == r.resps[Len(r.resps)]

\* did the request end on a JSON object body
GotBody(r) ==
    /\ r.pc = "done"
    /\ r.resps # <<>>
    /\ LastSettle(r).kind = "body"
    /\ LastSettle(r).body.kind = "object"

\* did the provider answer the request's last call with status 429 and a JSON body
Got429(r) == GotBody(r) /\ r.status = 429

\* C8: a request whose provider response had status 429 returns the rate-limit
\* string (and so not the generic HTTP-error string)
C8_RateLimit ==
    \A r \in Requests : Got429(r) => r.result = RateLimited(variant)

\* the text a prompt tells the model to answer when it recognizes nothing
\* (the OCR provider is given no prompt)
Sentinel(v) ==
    CASE v \in {"official", "fixed"} -> NoTextToken
      [] v \in {"server", "basic"} -> RecognitionFailedToken
      [] OTHER -> UNDEF

\* a failure string: it starts with the prefix "Recognition Failed: "
IsFailureString(s) == s # <<>> /\ Head(s) = "Recognition Failed: "

ThrownErrors == {FetchFailed, Aborted, JsonSyntaxError, NullAccess, UndefAccess, NotAFunction}

\* the strings for conditions the recognizer does not recognize specifically:
\* "HTTP Error <code>" and the strings of the catch block
GenericFailures(v) ==
    {CatchString(v, e) : e \in ThrownErrors}
    \cup (IF v \in {"server", "official", "fixed"}
          THEN {HttpError(v, st, <<>>) : st \in Statuses} ELSE {})

\* the request ended on a body whose text contains the sentinel
GotSentinel(r) ==
    /\ GotBody(r)
    /\ LastSettle(r).body.text # UNDEF
    /\ Includes(LastSettle(r).body.text, Sentinel(variant))

\* the request ended on a 2xx body, not safety-filtered, whose text is the
\* sentinel once surrounding whitespace is trimmed
GotExactSentinel(r) ==
    /\ GotBody(r)
    /\ Ok(r.status)
    /\ LastSettle(r).body.finish # "SAFETY"
    /\ Truthy(LastSettle(r).body.text)
    /\ Trim(LastSettle(r).body.text) = Sentinel(variant)

Ended(r) == r.pc \in {"done", "threw"}

OpenConns == {c \in Conns : IsOpen(c)}

\* the 200-character base64 payload of the end-to-end scenario
ScenarioImage == StrImage(<<>>, 200)

\* C11: (one message per run, a credential configured) with three connections
\* open, when connection 1 sends a recognize_image message with a 200-character
\* payload, no provider call is issued and each of the three connections is sent
\* the canvas-too-blank string under the recognition-result type tag
C11_EndToEnd ==
    (/\ apiKey
     /\ Cardinality(OpenConns) = 3
     /\ last.op = "message"
     /\ last.conn = 1
     /\ last.msg = Recognize(ScenarioImage))
        => /\ \A r \in Requests : r.calls = <<>>
           /\ \A c \in OpenConns :
                 /\ sent[c] # <<>>
                 /\ LastSent(c) = ResultMsg(variant, TooBlank(variant))

\* the place, among the frames sent to c, of the frame of the k-th drawing event
FramePos(c, k) == Cardinality({h \in 1..k : c \in log[h].to})

\* C12: in the drawing relay, when the server handled drawing event e1 of sender A
\* before e2 of A, each other connection that was sent both was sent e1's frame
\* before e2's frame, and each frame is the event's payload unmodified
C12_SenderOrder ==
    \A i, j \in DOMAIN log :
        (i < j /\ log[i].conn = log[j].conn) =>
            \A c \in log[i].to \cap log[j].to :
                /\ FramePos(c, i) < FramePos(c, j)
                /\ FramePos(c, j) <= Len(sent[c])
                /\ sent[c][FramePos(c, i)] = Raw(log[i].msg)
                /\ sent[c][FramePos(c, j)] = Raw(log[j].msg)

\* C12 witness: one sender's two different drawing events have reached another
\* connection, in the order they were handled
C12_Witness ==
    /\ Len(log) = 2
    /\ log[1].conn = log[2].conn
    /\ log[1].msg # log[2].msg
    /\ \E c \in log[1].to \cap log[2].to :
          sent[c] = <<Raw(log[1].msg), Raw(log[2].msg)>>

\* C13: no step sends a frame to a connection that is not open when the step is
\* taken; a broadcast (of a drawing event or of a recognition result) that skips
\* such connections raises no error and still sends its frame to every open
\* connection it is meant for
C13_SkipNotOpen ==
    [][/\ \A c \in Conns :
             ~(c \in wssClients /\ readyState[c] = "OPEN") => sent'[c] = sent[c]
       /\ (last'.op = "message" /\ last'.branch = "relayed") =>
             \A c \in Conns \ {last'.conn} :
                 (c \in wssClients /\ readyState[c] = "OPEN") =>
                     sent'[c] = Append(sent[c], Raw(last'.msg))
       /\ (last'.op \in {"message", "settle"} /\ last'.branch = "completed") =>
             /\ reqs'[last'.req].pc = "done"
             /\ \A c \in Conns :
                   (c \in wssClients /\ readyState[c] = "OPEN") =>
                       /\ Len(sent'[c]) > Len(sent[c])
                       /\ sent'[c][Len(sent'[c])].text = reqs'[last'.req].result]_vars

\* C13 witness: a broadcast has just skipped a connection that is closing, which
\* has been sent nothing, and reached an open connection other than the sender
C13_Witness ==
    /\ last.branch \in {"relayed", "completed"}
    /\ \E c \in wssClients :
          /\ readyState[c] = "CLOSING"
          /\ sent[c] = <<>>
    /\ \E d \in OpenConns \ {last.conn} :
          /\ sent[d] # <<>>
          /\ LastSent(d) \in {Raw(last.msg)} \cup
                {ResultMsg(variant, reqs[i].result) : i \in DOMAIN reqs \cap {last.req}}

\* C14: provided every provider call settles, each call of the recognizer
\* eventually ends by returning a string; none ends without one
C14_EndsWithString ==
    \A i \in 1..MaxMsgs :
        [](i \in DOMAIN reqs =>
              <>(/\ i \in DOMAIN reqs
                 /\ reqs[i].pc = "done"
                 /\ reqs[i].result \in Seq(STRING)))

\* what the recognizer makes of the request's own image and of what the last
\* await of the request's own call settled with
OwnResult(r) ==
    LET engine == r.calls[Len(r.calls)].engine
    IN  IF LastSettle(r).kind = "reject"
        THEN AfterReject(variant, engine, LastSettle(r).err).result
        ELSE AfterJson(variant, apiKey, r.image, engine, r.status, r.statusText,
                       LastSettle(r).body).result

\* C15: when the provider call of a request completes, whatever other requests
\* are in flight or have ended, the frame broadcast to the open connections
\* carries the string made from that request's own image and own response
C15_OwnResult ==
    (last.op = "settle" /\ last.branch = "completed") =>
        /\ reqs[last.req].pc = "done"
        /\ reqs[last.req].result = OwnResult(reqs[last.req])
        /\ \A c \in OpenConns :
              /\ sent[c] # <<>>
              /\ LastSent(c) = ResultMsg(variant, OwnResult(reqs[last.req]))

\* C15 witness: two requests of different senders each issued a provider call;
\* the second, issued while the first was pending, completed first, and a third
\* connection was sent the second's result and then the first's, which differ
C15_Witness ==
    /\ Len(reqs) = 2
    /\ reqs[1].sender # reqs[2].sender
    /\ reqs[1].calls # <<>> /\ reqs[2].calls # <<>>
    /\ reqs[1].pc = "done" /\ reqs[2].pc = "done"
    /\ reqs[1].result # reqs[2].result
    /\ last.req = 1
    /\ \E c \in OpenConns \ {reqs[1].sender, reqs[2].sender} :
          sent[c] = <<ResultMsg(variant, reqs[2].result), ResultMsg(variant, reqs[1].result)>>

\* is the request suspended at an await of its provider call
Pending(r) == r.pc \in {"fetch", "json"}

\* C16: while a provider call is pending, the server still accepts the next
\* connection, still lets any open connection close, and still handles any
\* message of any open connection (further recognition requests included); and a
\* request that completes in the meantime is broadcast to every open connection
\* (the bounds on closes and on messages are those of the model)
C16_HungCallBlocksNothing ==
    (\E r \in Requests : Pending(r)) =>
        /\ \A c \in Conns :
              (readyState[c] = "NONE" /\ \A d \in Conns : d < c => readyState[d] # "NONE")
                  => ENABLED Connect(c)
        /\ \A c \in Conns :
              (readyState[c] = "OPEN" /\ Cardinality(Left) < MaxCloses)
                  => ENABLED Close(c)
        /\ \A c \in Conns :
              (readyState[c] = "OPEN" /\ nmsgs < MaxMsgs) =>
                  \A m \in ServerMessages(variant) :
                      ENABLED (\/ IncomingMalformed(c, m)
                               \/ IncomingUnknown(c, m)
                               \/ IncomingRecognize(c, m))
        /\ (last.branch = "completed") =>
              \A c \in OpenConns :
                  /\ sent[c] # <<>>
                  /\ LastSent(c) = ResultMsg(variant, reqs[last.req].result)

\* C16 witness: the provider call of the first request is still pending; since
\* it was issued a connection has gone, and a second request, of another
\* connection, has completed and been broadcast to the open connections
C16_Witness ==
    /\ Len(reqs) = 2
    /\ reqs[1].pc = "fetch"
    /\ reqs[2].pc = "done"
    /\ reqs[2].sender # reqs[1].sender
    /\ last.req = 2 /\ last.branch = "completed"
    /\ readyState[reqs[1].sender] = "CLOSED"
    /\ Cardinality(OpenConns) = 2
    /\ \A c \in OpenConns : LastSent(c) = ResultMsg(variant, reqs[2].result)

\* C17: a request that issued a provider call is never cancelled: whatever
\* becomes of the connection that sent it, the request is pending, and its await
\* can still settle, or it has completed with what its call settled with; and
\* when it completes after its sender has stopped being open, its result is
\* still broadcast to the connections that are open
C17_NoCancel ==
    /\ \A i \in DOMAIN reqs :
          (reqs[i].calls # <<>>) =>
              /\ Pending(reqs[i]) \/ (reqs[i].pc = "done" /\ reqs[i].resps # <<>>)
              /\ (reqs[i].pc = "fetch") => ENABLED FetchReject(i, FetchFailed)
              /\ (reqs[i].pc = "json") =>
                    \A b \in ServerBodies(variant) : ENABLED JsonResolve(i, b)
    /\ (last.op = "settle" /\ last.branch = "completed" /\ ~IsOpen(last.conn)) =>
          /\ reqs[last.req].pc = "done"
          /\ \A c \in OpenConns :
                /\ sent[c] # <<>>
                /\ LastSent(c) = ResultMsg(variant, reqs[last.req].result)

\* C17 witness: the sender closed while its provider call was pending; the call
\* has now completed and its result is the last frame of a connection that is
\* open, while the sender was sent no result
C17_Witness ==
    /\ last.op = "settle" /\ last.branch = "completed"
    /\ readyState[last.conn] = "CLOSED"
    /\ reqs[last.req].calls # <<>>
    /\ \A k \in DOMAIN sent[last.conn] : sent[last.conn][k] = AckMsg
    /\ \E c \in OpenConns :
          LastSent(c) = ResultMsg(variant, reqs[last.req].result)

\* the body names the engine in the messages of a processing error
EngineError(body) ==
    /\ body.kind = "object"
    /\ body.isErr
    /\ body.emKind # "string"
    /\ \/ Includes(OcrErrorMsg(body), Engine2Word)
       \/ Includes(OcrErrorMsg(body), EngineWord)

\* C18: no request issues more than two provider calls; a second call is issued
\* only by the OCR recognizer, to engine 1, after engine 2 answered its call with
\* a 2xx response whose body reports a processing error that names the engine;
\* and a request that issued the second call ends, once that call settles,
\* by returning a string
C18_EngineFallback ==
    \A r \in Requests :
        /\ Len(r.calls) <= 2
        /\ (Len(r.calls) = 2) =>
              /\ variant = "ocr"
              /\ r.calls[1].engine = 2
              /\ r.calls[2].engine = 1
              /\ Len(r.resps) >= 2
              /\ r.resps[1].kind = "response" /\ Ok(r.resps[1].status)
              /\ r.resps[2].kind = "body" /\ EngineError(r.resps[2].body)
              /\ r.pc \in {"fetch", "json", "done"}
              /\ (Len(r.resps) = 4 \/ LastSettle(r).kind = "reject") =>
                    /\ r.pc = "done"
                    /\ \/ IsFailureString(r.result)
                       \/ /\ LastSettle(r).kind = "body"
                          /\ r.result = Trim(LastSettle(r).body.parsedText)

\* C18 witness: engine 2 reported an error that names it, engine 1 was called with
\* the same image and found no text; the failure string was broadcast
C18_Witness ==
    \E r \in Requests :
        /\ Len(r.calls) = 2
        /\ r.calls[2].image = r.calls[1].image
        /\ r.pc = "done"
        /\ LastSettle(r).kind = "body"
        /\ r.result = <<"Recognition Failed: ", "No text detected with either engine.">>
        /\ LastSent(r.sender).text = r.result

\* the image without its leading data-URI prefix, of whatever image type
Stripped(img) == IF img.pfx # <<>> THEN [img EXCEPT !.pfx = Tail(img.pfx)] ELSE img

\* C19: (a credential configured, a recognizer with a size guard) the guard
\* decides on the length of the payload once the data-URI prefix is stripped: a
\* request is short-circuited, issuing no provider call, exactly when that length
\* is below the threshold; so the prefix changes nothing to the decision
C19_StrippedLength ==
    (apiKey /\ variant \in {"server", "official", "fixed", "ocr"}) =>
        \A r \in Requests :
            (r.image.kind = "string") =>
                ((r.calls = <<>>) <=> (ImageLength(Stripped(r.image)) < MinLength(variant)))

\* C20: a request whose image begins with one data-URI prefix, of whatever image
\* type, submits to the provider the image with that prefix removed (the OCR
\* recognizer puts its own png prefix in front): no prefix of the client is
\* left at the start of the submitted data
C20_PrefixStripped ==
    \A r \in Requests :
        (r.image.kind = "string" /\ Len(r.image.pfx) = 1) =>
            \A k \in DOMAIN r.calls :
                r.calls[k].image = IF variant = "ocr"
                                   THEN WithPngPrefix(Stripped(r.image))
                                   ELSE Stripped(r.image)

\* C21: in the Gemini recognizers that look at the response status, a request
\* whose provider response had a status from 500 to 599 (and a JSON body)
\* returns the "try again later" server-fault string
C21_ServerFault ==
    variant \in {"server", "official", "fixed"} =>
        \A r \in Requests :
            (GotBody(r) /\ r.status >= 500 /\ r.status <= 599) => r.result = ServerFault

\* the non-2xx statuses the recognizer has a case of its own for
RecognizedStatuses(v) ==
    CASE v = "server" -> {400, 429}
      [] v \in {"official", "fixed"} -> {400, 403, 429, 500, 503}
      [] OTHER -> {}

\* C22: a request whose last provider response had a non-2xx status (and a JSON
\* body) returns a failure string, never the response's text candidate; when the
\* recognizer has no case of its own for the status, the string carries the status
C22_GenericFailure ==
    \A r \in Requests :
        (GotBody(r) /\ ~Ok(r.status)) =>
            /\ IsFailureString(r.result)
            /\ (r.status \notin RecognizedStatuses(variant)) =>
                  Includes(r.result, <<ToString(r.status)>>)

\* C23: in the drawing relay the tracked set `clients` holds exactly the
\* connections that were registered and have neither closed nor errored: every
\* open connection is in it, no connection that has not connected or has closed
\* is in it, and a connection whose error event has just been handled is not
C23_Registry ==
    /\ \A c \in Conns : readyState[c] = "OPEN" => c \in clients
    /\ \A c \in Conns : readyState[c] \in {"NONE", "CLOSED"} => c \notin clients
    /\ (last.op = "error") => last.conn \notin clients

\* the frames sent to connection c
Frames(c) == {sent[c][k] : k \in DOMAIN sent[c]}

\* C24: when the provider call of a request completes, the result is sent to the
\* connections open at that moment, whether or not they were open when the
\* request arrived, and to no connection that is not open then, even one that
\* was open when the request arrived (a frame is told from those of other
\* requests when no other request has the same result)
C24_RecipientsAtCompletion ==
    (last.op = "settle" /\ last.branch = "completed") =>
        /\ \A c \in OpenConns :
              /\ sent[c] # <<>>
              /\ LastSent(c) = ResultMsg(variant, reqs[last.req].result)
        /\ (\A j \in DOMAIN reqs \ {last.req} : reqs[j].result # reqs[last.req].result) =>
              \A c \in Conns \ OpenConns :
                  ResultMsg(variant, reqs[last.req].result) \notin Frames(c)

\* C24 witness: a call has just completed; a connection that opened while it was
\* pending has the result as its last frame, and a connection that was open
\* when the request arrived and closed since has been sent nothing
C24_Witness ==
    /\ last.op = "settle" /\ last.branch = "completed"
    /\ \E c \in OpenConns \ reqs[last.req].openAt :
          LastSent(c) = ResultMsg(variant, reqs[last.req].result)
    /\ \E d \in reqs[last.req].openAt \ OpenConns :
          /\ readyState[d] = "CLOSED"
          /\ sent[d] = <<>>

\* the results of the requests that returned differ from one another, so that a
\* result frame tells which request it belongs to
DistinctResults ==
    \A a, b \in DOMAIN reqs :
        (a # b /\ reqs[a].pc = "done" /\ reqs[b].pc = "done") => reqs[a].result # reqs[b].result

\* on every connection, each result frame of request a comes before each result
\* frame of request b
DeliveredBefore(a, b) ==
    \A c \in Conns : \A k, l \in DOMAIN sent[c] :
        (/\ sent[c][k] = ResultMsg(variant, reqs[a].result)
         /\ sent[c][l] = ResultMsg(variant, reqs[b].result)) => k < l

\* C25 as stated: two recognition requests r1 then r2 of the same sender have
\* their results delivered to each connection that receives both in the order
\* r1, r2
C25_Original ==
    DistinctResults =>
        \A a, b \in DOMAIN reqs :
            (/\ a < b
             /\ reqs[a].sender = reqs[b].sender
             /\ reqs[a].pc = "done" /\ reqs[b].pc = "done") => DeliveredBefore(a, b)

\* C25 amended: results are delivered in the order in which the requests
\* complete: when request a returned its string before request b did, each
\* connection that receives both results receives a's first, whichever
\* of the two requests arrived first and whoever sent them
C25_CompletionOrder ==
    DistinctResults =>
        \A a, b \in DOMAIN reqs :
            (/\ reqs[a].pc = "done" /\ reqs[b].pc = "done"
             /\ reqs[a].rank < reqs[b].rank) => DeliveredBefore(a, b)

\* C25 witness: of two requests of one sender the second completed first, and a
\* connection was sent the second's result and then the first's
C25_Witness ==
    /\ Len(reqs) = 2
    /\ reqs[1].sender = reqs[2].sender
    /\ reqs[1].pc = "done" /\ reqs[2].pc = "done"
    /\ reqs[2].rank < reqs[1].rank
    /\ reqs[1].result # reqs[2].result
    /\ \E c \in OpenConns :
          sent[c] = <<ResultMsg(variant, reqs[2].result), ResultMsg(variant, reqs[1].result)>>

\* C26: whatever the server sends in a step (a broadcast frame, an
\* acknowledgement, an error reply), it sends to connections that are open before
\* and after the step; what a connection was sent before is never taken back
C26_SendsToOpenOnly ==
    [][\A c \in Conns :
          /\ Len(sent'[c]) >= Len(sent[c])
          /\ SubSeq(sent'[c], 1, Len(sent[c])) = sent[c]
          /\ (Len(sent'[c]) > Len(sent[c])) =>
                /\ c \in wssClients /\ readyState[c] = "OPEN"
                /\ c \in wssClients' /\ readyState'[c] = "OPEN"]_vars

\* C26 witness: an error reply has just been sent to the sender of a message
\* while another connection, which is closing, has been sent nothing
C26_Witness ==
    /\ last.op = "message"
    /\ last.branch \in {"caught", "threw"}
    /\ IsOpen(last.conn)
    /\ sent[last.conn] # <<>>
    /\ IsErrorReply(LastSent(last.conn))
    /\ \E c \in wssClients : readyState[c] = "CLOSING" /\ sent[c] = <<>>

\* the places, among the frames sent to c, of the recognition results (frames of
\* the result type that are neither the acknowledgement nor an error reply)
ResultFrames(c) ==
    {k \in DOMAIN sent[c] :
        /\ sent[c][k].type = ResultType(variant)
        /\ sent[c][k] # AckMsg
        /\ ~IsErrorReply(sent[c][k])}

\* C27: each accepted recognition request yields exactly one result broadcast:
\* no connection has been sent more results than requests were received, and
\* the sender of a request that has ended, when still open, has been sent the
\* result of that request
C27_OneBroadcast ==
    /\ \A c \in Conns : Cardinality(ResultFrames(c)) <= Len(reqs)
    /\ \A r \in Requests :
          (Ended(r) /\ IsOpen(r.sender)) =>
              /\ r.pc = "done"
              /\ \E k \in ResultFrames(r.sender) : sent[r.sender][k].text = r.result

\* C28: with no credential configured, a request whose payload is below the
\* size threshold of the recognizer returns the key-missing string, which is not
\* the canvas-too-blank string, and that string is what is broadcast
C28_KeyCheckFirst ==
    ~apiKey =>
        \A i \in DOMAIN reqs :
            ShortPayload(reqs[i].image) =>
                /\ reqs[i].pc = "done"
                /\ reqs[i].result = KeyMissing(variant)
                /\ reqs[i].result # TooBlank(variant)
                /\ \A c \in Conns : ResultMsg(variant, TooBlank(variant)) \notin Frames(c)

\* C28 witness: with no credential, a 200-character payload was answered with the
\* key-missing string, which was broadcast to the sender and another connection
C28_Witness ==
    /\ ~apiKey
    /\ \E r \in Requests :
          /\ r.image = ScenarioImage
          /\ ShortPayload(r.image)
          /\ r.result = KeyMissing(variant)
          /\ LastSent(r.sender) = ResultMsg(variant, KeyMissing(variant))
          /\ \E c \in OpenConns \ {r.sender} :
                LastSent(c) = ResultMsg(variant, KeyMissing(variant))

\* C29: (one message per run) in the OCR server, a request makes the server send
\* the "Processing..." acknowledgement to the sender and to no other connection;
\* it is the first frame of the sender, sent by the time a provider call is issued
\* and before every result
C29_Acknowledgement ==
    variant = "ocr" =>
        \A r \in Requests :
            /\ sent[r.sender] # <<>>
            /\ sent[r.sender][1] = AckMsg
            /\ \A k \in ResultFrames(r.sender) : k > 1
            /\ \A k \in DOMAIN sent[r.sender] : k > 1 => sent[r.sender][k] # AckMsg
            /\ \A c \in Conns \ {r.sender} : AckMsg \notin Frames(c)

\* C29 witness: the OCR server issued a provider call and broadcast its result;
\* the sender was sent the acknowledgement and then the result, another
\* connection the result alone
C29_Witness ==
    /\ variant = "ocr"
    /\ \E r \in Requests :
          /\ r.calls # <<>>
          /\ r.pc = "done"
          /\ sent[r.sender] = <<AckMsg, ResultMsg(variant, r.result)>>
          /\ \E c \in OpenConns \ {r.sender} : sent[c] = <<ResultMsg(variant, r.result)>>

\* C30: a recognize_image message whose image field is absent or the empty
\* string never causes a call to the provider, in any variant
C30_NoCallWithoutImage ==
    \A r \in Requests :
        (r.image = NoImage \/ r.image = StrImage(<<>>, 0)) => r.calls = <<>>

====
